---- MODULE Spec2Model ----
(***************************************************************************)
(* Model of the Rule 303 / Rule 304 scanner (src/app/app.py).              *)
(*                                                                         *)
(* A source text is a sequence of Unicode code points.  Offsets into a     *)
(* text are 0-based as in Python: the character at offset p of text is     *)
(* text[p + 1].  Objects live in `heap`, a sequence of Unit records; the   *)
(* index of a record is the identity of the object.                        *)
(*                                                                         *)
(* Unit.code is drawn from the texts made of a few fragments (keywords in  *)
(* two spellings, white space, line breaks, word characters, a period)     *)
(* and from the example texts of the documentation.                        *)
(***************************************************************************)
EXTENDS Integers, Sequences, FiniteSets, TLC

\* ------------------------------------------------------------------------
\* Bounds of the model
\* ------------------------------------------------------------------------
\* largest number of text fragments in the code of a unit of POST /remediate
MaxFrags == 3
\* largest number of units in the body of POST /remediate-array
MaxUnits == 2

\* ------------------------------------------------------------------------
\* Optional[...] values
\* ------------------------------------------------------------------------
NoneV == [isNone |-> TRUE]

Some(x) == [isNone |-> FALSE, val |-> x]

\* truth value of an Optional[List] / Optional[str]: None and empty are falsy
Truthy(o) == (~o.isNone) /\ Len(o.val) > 0

\* `unit.code or ""`
OrEmpty(o) == IF Truthy(o) THEN o.val ELSE <<>>

\* ------------------------------------------------------------------------
\* Rule definitions
\* ------------------------------------------------------------------------
RULE_303 == "Remove obsolete SET EXTENDED CHECK statement"

RULE_304 == "BREAK-POINT is not allowed in ABAP for Cloud / Key User scenarios"

ISSUE_303 == "Rule303_SetExtendedCheck"

ISSUE_304 == "Rule304_BreakPointUsage"

MSG_303 == "Obsolete SET EXTENDED CHECK statement detected."

SUG_303 == "Remove the SET EXTENDED CHECK statement entirely."

MSG_304 == "BREAK-POINT is not allowed in ABAP Cloud / Key User scenarios."

SUG_304 == "Remove or comment out the BREAK-POINT statement."

\* ------------------------------------------------------------------------
\* Characters and character classes of the regex engine
\* ------------------------------------------------------------------------
\* A character is its Unicode code point, 0 to 1114111.  The character
\* classes are those of Python's re for a str pattern (Unicode 14.0.0).
LF == 10

BACKSLASH == 92

SMALL_N == 110

\* \s of a str pattern: the characters with str.isspace()
SPACE_CHARS ==
    (9..13) \cup (28..32) \cup {133, 160, 5760} \cup (8192..8202)
    \cup {8232, 8233, 8239, 8287, 12288}

\* \w of a str pattern: the characters with str.isalnum(), and the
\* underscore, as ascending lists of the ranges <<first, last>> of their code
\* points, one list per stretch of the code space
\* the ranges of \w from U+0030 to U+02C1
WORD_RANGES_1 ==
    << <<48,57>>, <<65,90>>, <<95,95>>, <<97,122>>, <<170,170>>, <<178,179>>,
       <<181,181>>, <<185,186>>, <<188,190>>, <<192,214>>, <<216,246>>,
       <<248,705>> >>

\* the ranges of \w from U+02C6 to U+09F1
WORD_RANGES_2 ==
    << <<710,721>>, <<736,740>>, <<748,748>>, <<750,750>>, <<880,884>>,
       <<886,887>>, <<890,893>>, <<895,895>>, <<902,902>>, <<904,906>>,
       <<908,908>>, <<910,929>>, <<931,1013>>, <<1015,1153>>, <<1162,1327>>,
       <<1329,1366>>, <<1369,1369>>, <<1376,1416>>, <<1488,1514>>,
       <<1519,1522>>, <<1568,1610>>, <<1632,1641>>, <<1646,1647>>,
       <<1649,1747>>, <<1749,1749>>, <<1765,1766>>, <<1774,1788>>,
       <<1791,1791>>, <<1808,1808>>, <<1810,1839>>, <<1869,1957>>,
       <<1969,1969>>, <<1984,2026>>, <<2036,2037>>, <<2042,2042>>,
       <<2048,2069>>, <<2074,2074>>, <<2084,2084>>, <<2088,2088>>,
       <<2112,2136>>, <<2144,2154>>, <<2160,2183>>, <<2185,2190>>,
       <<2208,2249>>, <<2308,2361>>, <<2365,2365>>, <<2384,2384>>,
       <<2392,2401>>, <<2406,2415>>, <<2417,2432>>, <<2437,2444>>,
       <<2447,2448>>, <<2451,2472>>, <<2474,2480>>, <<2482,2482>>,
       <<2486,2489>>, <<2493,2493>>, <<2510,2510>>, <<2524,2525>>,
       <<2527,2529>>, <<2534,2545>> >>

\* the ranges of \w from U+09F4 to U+0CA8
WORD_RANGES_3 ==
    << <<2548,2553>>, <<2556,2556>>, <<2565,2570>>, <<2575,2576>>,
       <<2579,2600>>, <<2602,2608>>, <<2610,2611>>, <<2613,2614>>,
       <<2616,2617>>, <<2649,2652>>, <<2654,2654>>, <<2662,2671>>,
       <<2674,2676>>, <<2693,2701>>, <<2703,2705>>, <<2707,2728>>,
       <<2730,2736>>, <<2738,2739>>, <<2741,2745>>, <<2749,2749>>,
       <<2768,2768>>, <<2784,2785>>, <<2790,2799>>, <<2809,2809>>,
       <<2821,2828>>, <<2831,2832>>, <<2835,2856>>, <<2858,2864>>,
       <<2866,2867>>, <<2869,2873>>, <<2877,2877>>, <<2908,2909>>,
       <<2911,2913>>, <<2918,2927>>, <<2929,2935>>, <<2947,2947>>,
       <<2949,2954>>, <<2958,2960>>, <<2962,2965>>, <<2969,2970>>,
       <<2972,2972>>, <<2974,2975>>, <<2979,2980>>, <<2984,2986>>,
       <<2990,3001>>, <<3024,3024>>, <<3046,3058>>, <<3077,3084>>,
       <<3086,3088>>, <<3090,3112>>, <<3114,3129>>, <<3133,3133>>,
       <<3160,3162>>, <<3165,3165>>, <<3168,3169>>, <<3174,3183>>,
       <<3192,3198>>, <<3200,3200>>, <<3205,3212>>, <<3214,3216>>,
       <<3218,3240>> >>

\* the ranges of \w from U+0CAA to U+1258
WORD_RANGES_4 ==
    << <<3242,3251>>, <<3253,3257>>, <<3261,3261>>, <<3293,3294>>,
       <<3296,3297>>, <<3302,3311>>, <<3313,3314>>, <<3332,3340>>,
       <<3342,3344>>, <<3346,3386>>, <<3389,3389>>, <<3406,3406>>,
       <<3412,3414>>, <<3416,3425>>, <<3430,3448>>, <<3450,3455>>,
       <<3461,3478>>, <<3482,3505>>, <<3507,3515>>, <<3517,3517>>,
       <<3520,3526>>, <<3558,3567>>, <<3585,3632>>, <<3634,3635>>,
       <<3648,3654>>, <<3664,3673>>, <<3713,3714>>, <<3716,3716>>,
       <<3718,3722>>, <<3724,3747>>, <<3749,3749>>, <<3751,3760>>,
       <<3762,3763>>, <<3773,3773>>, <<3776,3780>>, <<3782,3782>>,
       <<3792,3801>>, <<3804,3807>>, <<3840,3840>>, <<3872,3891>>,
       <<3904,3911>>, <<3913,3948>>, <<3976,3980>>, <<4096,4138>>,
       <<4159,4169>>, <<4176,4181>>, <<4186,4189>>, <<4193,4193>>,
       <<4197,4198>>, <<4206,4208>>, <<4213,4225>>, <<4238,4238>>,
       <<4240,4249>>, <<4256,4293>>, <<4295,4295>>, <<4301,4301>>,
       <<4304,4346>>, <<4348,4680>>, <<4682,4685>>, <<4688,4694>>,
       <<4696,4696>> >>

\* the ranges of \w from U+125A to U+1CF3
WORD_RANGES_5 ==
    << <<4698,4701>>, <<4704,4744>>, <<4746,4749>>, <<4752,4784>>,
       <<4786,4789>>, <<4792,4798>>, <<4800,4800>>, <<4802,4805>>,
       <<4808,4822>>, <<4824,4880>>, <<4882,4885>>, <<4888,4954>>,
       <<4969,4988>>, <<4992,5007>>, <<5024,5109>>, <<5112,5117>>,
       <<5121,5740>>, <<5743,5759>>, <<5761,5786>>, <<5792,5866>>,
       <<5870,5880>>, <<5888,5905>>, <<5919,5937>>, <<5952,5969>>,
       <<5984,5996>>, <<5998,6000>>, <<6016,6067>>, <<6103,6103>>,
       <<6108,6108>>, <<6112,6121>>, <<6128,6137>>, <<6160,6169>>,
       <<6176,6264>>, <<6272,6276>>, <<6279,6312>>, <<6314,6314>>,
       <<6320,6389>>, <<6400,6430>>, <<6470,6509>>, <<6512,6516>>,
       <<6528,6571>>, <<6576,6601>>, <<6608,6618>>, <<6656,6678>>,
       <<6688,6740>>, <<6784,6793>>, <<6800,6809>>, <<6823,6823>>,
       <<6917,6963>>, <<6981,6988>>, <<6992,7001>>, <<7043,7072>>,
       <<7086,7141>>, <<7168,7203>>, <<7232,7241>>, <<7245,7293>>,
       <<7296,7304>>, <<7312,7354>>, <<7357,7359>>, <<7401,7404>>,
       <<7406,7411>> >>

\* the ranges of \w from U+1CF5 to U+2DDE
WORD_RANGES_6 ==
    << <<7413,7414>>, <<7418,7418>>, <<7424,7615>>, <<7680,7957>>,
       <<7960,7965>>, <<7968,8005>>, <<8008,8013>>, <<8016,8023>>,
       <<8025,8025>>, <<8027,8027>>, <<8029,8029>>, <<8031,8061>>,
       <<8064,8116>>, <<8118,8124>>, <<8126,8126>>, <<8130,8132>>,
       <<8134,8140>>, <<8144,8147>>, <<8150,8155>>, <<8160,8172>>,
       <<8178,8180>>, <<8182,8188>>, <<8304,8305>>, <<8308,8313>>,
       <<8319,8329>>, <<8336,8348>>, <<8450,8450>>, <<8455,8455>>,
       <<8458,8467>>, <<8469,8469>>, <<8473,8477>>, <<8484,8484>>,
       <<8486,8486>>, <<8488,8488>>, <<8490,8493>>, <<8495,8505>>,
       <<8508,8511>>, <<8517,8521>>, <<8526,8526>>, <<8528,8585>>,
       <<9312,9371>>, <<9450,9471>>, <<10102,10131>>, <<11264,11492>>,
       <<11499,11502>>, <<11506,11507>>, <<11517,11517>>, <<11520,11557>>,
       <<11559,11559>>, <<11565,11565>>, <<11568,11623>>, <<11631,11631>>,
       <<11648,11670>>, <<11680,11686>>, <<11688,11694>>, <<11696,11702>>,
       <<11704,11710>>, <<11712,11718>>, <<11720,11726>>, <<11728,11734>>,
       <<11736,11742>> >>

\* the ranges of \w from U+2E2F to U+AABD
WORD_RANGES_7 ==
    << <<11823,11823>>, <<12293,12295>>, <<12321,12329>>, <<12337,12341>>,
       <<12344,12348>>, <<12353,12438>>, <<12445,12447>>, <<12449,12538>>,
       <<12540,12543>>, <<12549,12591>>, <<12593,12686>>, <<12690,12693>>,
       <<12704,12735>>, <<12784,12799>>, <<12832,12841>>, <<12872,12879>>,
       <<12881,12895>>, <<12928,12937>>, <<12977,12991>>, <<13312,19903>>,
       <<19968,42124>>, <<42192,42237>>, <<42240,42508>>, <<42512,42539>>,
       <<42560,42606>>, <<42623,42653>>, <<42656,42735>>, <<42775,42783>>,
       <<42786,42888>>, <<42891,42954>>, <<42960,42961>>, <<42963,42963>>,
       <<42965,42969>>, <<42994,43009>>, <<43011,43013>>, <<43015,43018>>,
       <<43020,43042>>, <<43056,43061>>, <<43072,43123>>, <<43138,43187>>,
       <<43216,43225>>, <<43250,43255>>, <<43259,43259>>, <<43261,43262>>,
       <<43264,43301>>, <<43312,43334>>, <<43360,43388>>, <<43396,43442>>,
       <<43471,43481>>, <<43488,43492>>, <<43494,43518>>, <<43520,43560>>,
       <<43584,43586>>, <<43588,43595>>, <<43600,43609>>, <<43616,43638>>,
       <<43642,43642>>, <<43646,43695>>, <<43697,43697>>, <<43701,43702>>,
       <<43705,43709>> >>

\* the ranges of \w from U+AAC0 to U+103C3
WORD_RANGES_8 ==
    << <<43712,43712>>, <<43714,43714>>, <<43739,43741>>, <<43744,43754>>,
       <<43762,43764>>, <<43777,43782>>, <<43785,43790>>, <<43793,43798>>,
       <<43808,43814>>, <<43816,43822>>, <<43824,43866>>, <<43868,43881>>,
       <<43888,44002>>, <<44016,44025>>, <<44032,55203>>, <<55216,55238>>,
       <<55243,55291>>, <<63744,64109>>, <<64112,64217>>, <<64256,64262>>,
       <<64275,64279>>, <<64285,64285>>, <<64287,64296>>, <<64298,64310>>,
       <<64312,64316>>, <<64318,64318>>, <<64320,64321>>, <<64323,64324>>,
       <<64326,64433>>, <<64467,64829>>, <<64848,64911>>, <<64914,64967>>,
       <<65008,65019>>, <<65136,65140>>, <<65142,65276>>, <<65296,65305>>,
       <<65313,65338>>, <<65345,65370>>, <<65382,65470>>, <<65474,65479>>,
       <<65482,65487>>, <<65490,65495>>, <<65498,65500>>, <<65536,65547>>,
       <<65549,65574>>, <<65576,65594>>, <<65596,65597>>, <<65599,65613>>,
       <<65616,65629>>, <<65664,65786>>, <<65799,65843>>, <<65856,65912>>,
       <<65930,65931>>, <<66176,66204>>, <<66208,66256>>, <<66273,66299>>,
       <<66304,66339>>, <<66349,66378>>, <<66384,66421>>, <<66432,66461>>,
       <<66464,66499>> >>

\* the ranges of \w from U+103C8 to U+10F27
WORD_RANGES_9 ==
    << <<66504,66511>>, <<66513,66517>>, <<66560,66717>>, <<66720,66729>>,
       <<66736,66771>>, <<66776,66811>>, <<66816,66855>>, <<66864,66915>>,
       <<66928,66938>>, <<66940,66954>>, <<66956,66962>>, <<66964,66965>>,
       <<66967,66977>>, <<66979,66993>>, <<66995,67001>>, <<67003,67004>>,
       <<67072,67382>>, <<67392,67413>>, <<67424,67431>>, <<67456,67461>>,
       <<67463,67504>>, <<67506,67514>>, <<67584,67589>>, <<67592,67592>>,
       <<67594,67637>>, <<67639,67640>>, <<67644,67644>>, <<67647,67669>>,
       <<67672,67702>>, <<67705,67742>>, <<67751,67759>>, <<67808,67826>>,
       <<67828,67829>>, <<67835,67867>>, <<67872,67897>>, <<67968,68023>>,
       <<68028,68047>>, <<68050,68096>>, <<68112,68115>>, <<68117,68119>>,
       <<68121,68149>>, <<68160,68168>>, <<68192,68222>>, <<68224,68255>>,
       <<68288,68295>>, <<68297,68324>>, <<68331,68335>>, <<68352,68405>>,
       <<68416,68437>>, <<68440,68466>>, <<68472,68497>>, <<68521,68527>>,
       <<68608,68680>>, <<68736,68786>>, <<68800,68850>>, <<68858,68899>>,
       <<68912,68921>>, <<69216,69246>>, <<69248,69289>>, <<69296,69297>>,
       <<69376,69415>> >>

\* the ranges of \w from U+10F30 to U+1182B
WORD_RANGES_10 ==
    << <<69424,69445>>, <<69457,69460>>, <<69488,69505>>, <<69552,69579>>,
       <<69600,69622>>, <<69635,69687>>, <<69714,69743>>, <<69745,69746>>,
       <<69749,69749>>, <<69763,69807>>, <<69840,69864>>, <<69872,69881>>,
       <<69891,69926>>, <<69942,69951>>, <<69956,69956>>, <<69959,69959>>,
       <<69968,70002>>, <<70006,70006>>, <<70019,70066>>, <<70081,70084>>,
       <<70096,70106>>, <<70108,70108>>, <<70113,70132>>, <<70144,70161>>,
       <<70163,70187>>, <<70272,70278>>, <<70280,70280>>, <<70282,70285>>,
       <<70287,70301>>, <<70303,70312>>, <<70320,70366>>, <<70384,70393>>,
       <<70405,70412>>, <<70415,70416>>, <<70419,70440>>, <<70442,70448>>,
       <<70450,70451>>, <<70453,70457>>, <<70461,70461>>, <<70480,70480>>,
       <<70493,70497>>, <<70656,70708>>, <<70727,70730>>, <<70736,70745>>,
       <<70751,70753>>, <<70784,70831>>, <<70852,70853>>, <<70855,70855>>,
       <<70864,70873>>, <<71040,71086>>, <<71128,71131>>, <<71168,71215>>,
       <<71236,71236>>, <<71248,71257>>, <<71296,71338>>, <<71352,71352>>,
       <<71360,71369>>, <<71424,71450>>, <<71472,71483>>, <<71488,71494>>,
       <<71680,71723>> >>

\* the ranges of \w from U+118A0 to U+16FE1
WORD_RANGES_11 ==
    << <<71840,71922>>, <<71935,71942>>, <<71945,71945>>, <<71948,71955>>,
       <<71957,71958>>, <<71960,71983>>, <<71999,71999>>, <<72001,72001>>,
       <<72016,72025>>, <<72096,72103>>, <<72106,72144>>, <<72161,72161>>,
       <<72163,72163>>, <<72192,72192>>, <<72203,72242>>, <<72250,72250>>,
       <<72272,72272>>, <<72284,72329>>, <<72349,72349>>, <<72368,72440>>,
       <<72704,72712>>, <<72714,72750>>, <<72768,72768>>, <<72784,72812>>,
       <<72818,72847>>, <<72960,72966>>, <<72968,72969>>, <<72971,73008>>,
       <<73030,73030>>, <<73040,73049>>, <<73056,73061>>, <<73063,73064>>,
       <<73066,73097>>, <<73112,73112>>, <<73120,73129>>, <<73440,73458>>,
       <<73648,73648>>, <<73664,73684>>, <<73728,74649>>, <<74752,74862>>,
       <<74880,75075>>, <<77712,77808>>, <<77824,78894>>, <<82944,83526>>,
       <<92160,92728>>, <<92736,92766>>, <<92768,92777>>, <<92784,92862>>,
       <<92864,92873>>, <<92880,92909>>, <<92928,92975>>, <<92992,92995>>,
       <<93008,93017>>, <<93019,93025>>, <<93027,93047>>, <<93053,93071>>,
       <<93760,93846>>, <<93952,94026>>, <<94032,94032>>, <<94099,94111>>,
       <<94176,94177>> >>

\* the ranges of \w from U+16FE3 to U+1E8C4
WORD_RANGES_12 ==
    << <<94179,94179>>, <<94208,100343>>, <<100352,101589>>,
       <<101632,101640>>, <<110576,110579>>, <<110581,110587>>,
       <<110589,110590>>, <<110592,110882>>, <<110928,110930>>,
       <<110948,110951>>, <<110960,111355>>, <<113664,113770>>,
       <<113776,113788>>, <<113792,113800>>, <<113808,113817>>,
       <<119520,119539>>, <<119648,119672>>, <<119808,119892>>,
       <<119894,119964>>, <<119966,119967>>, <<119970,119970>>,
       <<119973,119974>>, <<119977,119980>>, <<119982,119993>>,
       <<119995,119995>>, <<119997,120003>>, <<120005,120069>>,
       <<120071,120074>>, <<120077,120084>>, <<120086,120092>>,
       <<120094,120121>>, <<120123,120126>>, <<120128,120132>>,
       <<120134,120134>>, <<120138,120144>>, <<120146,120485>>,
       <<120488,120512>>, <<120514,120538>>, <<120540,120570>>,
       <<120572,120596>>, <<120598,120628>>, <<120630,120654>>,
       <<120656,120686>>, <<120688,120712>>, <<120714,120744>>,
       <<120746,120770>>, <<120772,120779>>, <<120782,120831>>,
       <<122624,122654>>, <<123136,123180>>, <<123191,123197>>,
       <<123200,123209>>, <<123214,123214>>, <<123536,123565>>,
       <<123584,123627>>, <<123632,123641>>, <<124896,124902>>,
       <<124904,124907>>, <<124909,124910>>, <<124912,124926>>,
       <<124928,125124>> >>

\* the ranges of \w from U+1E8C7 to U+3134A
WORD_RANGES_13 ==
    << <<125127,125135>>, <<125184,125251>>, <<125259,125259>>,
       <<125264,125273>>, <<126065,126123>>, <<126125,126127>>,
       <<126129,126132>>, <<126209,126253>>, <<126255,126269>>,
       <<126464,126467>>, <<126469,126495>>, <<126497,126498>>,
       <<126500,126500>>, <<126503,126503>>, <<126505,126514>>,
       <<126516,126519>>, <<126521,126521>>, <<126523,126523>>,
       <<126530,126530>>, <<126535,126535>>, <<126537,126537>>,
       <<126539,126539>>, <<126541,126543>>, <<126545,126546>>,
       <<126548,126548>>, <<126551,126551>>, <<126553,126553>>,
       <<126555,126555>>, <<126557,126557>>, <<126559,126559>>,
       <<126561,126562>>, <<126564,126564>>, <<126567,126570>>,
       <<126572,126578>>, <<126580,126583>>, <<126585,126588>>,
       <<126590,126590>>, <<126592,126601>>, <<126603,126619>>,
       <<126625,126627>>, <<126629,126633>>, <<126635,126651>>,
       <<127232,127244>>, <<130032,130041>>, <<131072,173791>>,
       <<173824,177976>>, <<177984,178205>>, <<178208,183969>>,
       <<183984,191456>>, <<194560,195101>>, <<196608,201546>> >>

\* is c in one of the ranges of the list rs
InRanges(rs, c) == \E i \in 1..Len(rs) : rs[i][1] <= c /\ c <= rs[i][2]

\* \w: the list of c's stretch holds a range with c
IsWord(c) ==
    IF c <= 705 THEN InRanges(WORD_RANGES_1, c)
    ELSE IF c <= 2545 THEN InRanges(WORD_RANGES_2, c)
    ELSE IF c <= 3240 THEN InRanges(WORD_RANGES_3, c)
    ELSE IF c <= 4696 THEN InRanges(WORD_RANGES_4, c)
    ELSE IF c <= 7411 THEN InRanges(WORD_RANGES_5, c)
    ELSE IF c <= 11742 THEN InRanges(WORD_RANGES_6, c)
    ELSE IF c <= 43709 THEN InRanges(WORD_RANGES_7, c)
    ELSE IF c <= 66499 THEN InRanges(WORD_RANGES_8, c)
    ELSE IF c <= 69415 THEN InRanges(WORD_RANGES_9, c)
    ELSE IF c <= 71723 THEN InRanges(WORD_RANGES_10, c)
    ELSE IF c <= 94177 THEN InRanges(WORD_RANGES_11, c)
    ELSE IF c <= 125124 THEN InRanges(WORD_RANGES_12, c)
    ELSE InRanges(WORD_RANGES_13, c)

IsSpace(c) == c \in SPACE_CHARS

\* re.IGNORECASE: does the character c match the pattern's literal
\* character k (a keyword letter in upper case, or the hyphen)?  k matches
\* itself, its lower-case letter, and the other characters of its case
\* class: long s for S, Kelvin sign for K, dotted capital I and dotless i
\* for I.
IgnoreCaseEq(c, k) ==
    \/ c = k
    \/ k \in 65..90 /\ c = k + 32
    \/ k = 83 /\ c = 383
    \/ k = 75 /\ c = 8490
    \/ k = 73 /\ c \in {304, 305}

\* the keywords of the two patterns
\* "SET"
KW_SET == <<83,69,84>>

\* "EXTENDED"
KW_EXTENDED == <<69,88,84,69,78,68,69,68>>

\* "CHECK"
KW_CHECK == <<67,72,69,67,75>>

\* "BREAK-POINT"
KW_BREAKPOINT == <<66,82,69,65,75,45,80,79,73,78,84>>

\* ------------------------------------------------------------------------
\* Regex matching
\* ------------------------------------------------------------------------
\* is there a word character at offset p of src (FALSE outside the text)
IsWordAt(src, p) == p >= 0 /\ p < Len(src) /\ IsWord(src[p + 1])

\* a pattern written without its \b
WordBoundary_absent(src, p) == TRUE

\* \b at offset p: exactly one side of p is a word character
WordBoundary(src, p) == IsWordAt(src, p - 1) # IsWordAt(src, p)

\* a literal keyword at offset p, ignoring case
MatchLit(src, p, kw) ==
    /\ p >= 0
    /\ p + Len(kw) <= Len(src)
    /\ \A k \in 1..Len(kw) : IgnoreCaseEq(src[p + k], kw[k])

\* greedy \s* from offset p: the offset after the run
RECURSIVE SkipSpace(_, _)
SkipSpace(src, p) ==
    IF p < Len(src) /\ IsSpace(src[p + 1]) THEN SkipSpace(src, p + 1) ELSE p

\* greedy \w* from offset p: the offset after the run
RECURSIVE SkipWord(_, _)
SkipWord(src, p) ==
    IF p < Len(src) /\ IsWord(src[p + 1]) THEN SkipWord(src, p + 1) ELSE p

\* SET\s+EXTENDED\s+CHECK at offset p, without the two \b:
\* the end offset of the match, or -1
SetExtCheckBody(src, p) ==
    LET a == p + Len(KW_SET)
        b == SkipSpace(src, a)
        c == b + Len(KW_EXTENDED)
        d == SkipSpace(src, c)
        e == d + Len(KW_CHECK)
    IN  IF /\ MatchLit(src, p, KW_SET)
           /\ b > a
           /\ MatchLit(src, b, KW_EXTENDED)
           /\ d > c
           /\ MatchLit(src, d, KW_CHECK)
        THEN e
        ELSE -1

\* \bSET\s+EXTENDED\s+CHECK\b anchored at offset p: end offset or -1
SET_EXT_CHECK_RE(src, p) ==
    LET e == SetExtCheckBody(src, p)
    IN  IF e >= 0 /\ WordBoundary(src, p) /\ WordBoundary(src, e)
        THEN e
        ELSE -1

\* (?:\s+\w+)? at offset a: the offset after the optional group
TrailingToken(src, a) ==
    LET b == SkipSpace(src, a)
        c == SkipWord(src, b)
    IN  IF b > a /\ c > b THEN c ELSE a

\* \bBREAK-POINT\b(?:\s+\w+)? anchored at offset p: end offset or -1
BREAKPOINT_RE(src, p) ==
    LET a == p + Len(KW_BREAKPOINT)
    IN  IF /\ MatchLit(src, p, KW_BREAKPOINT)
           /\ WordBoundary(src, p)
           /\ WordBoundary(src, a)
        THEN TrailingToken(src, a)
        ELSE -1

MatchAt(issue, src, p) ==
    IF issue = ISSUE_303 THEN SET_EXT_CHECK_RE(src, p) ELSE BREAKPOINT_RE(src, p)

\* pattern.finditer(src): the spans of the leftmost non-overlapping matches,
\* searching on from offset pos
RECURSIVE finditer(_, _, _)
finditer(issue, src, pos) ==
    IF pos > Len(src) THEN <<>>
    ELSE LET e == MatchAt(issue, src, pos)
         IN  IF e >= 0
             THEN <<[start |-> pos, end |-> e]>> \o finditer(issue, src, e)
             ELSE finditer(issue, src, pos + 1)

\* ------------------------------------------------------------------------
\* String helpers
\* ------------------------------------------------------------------------
Max(S) == CHOOSE x \in S : \A y \in S : y <= x

Min(S) == CHOOSE x \in S : \A y \in S : x <= y

\* text.rfind(c, lo, hi)
rfind(text, c, lo, hi) ==
    LET S == {i \in lo..(hi - 1) : i < Len(text) /\ text[i + 1] = c}
    IN  IF S = {} THEN -1 ELSE Max(S)

\* text.find(c, lo)
find(text, c, lo) ==
    LET S == {i \in lo..(Len(text) - 1) : text[i + 1] = c}
    IN  IF S = {} THEN -1 ELSE Min(S)

\* text.count(c, lo, hi)
count(text, c, lo, hi) ==
    Cardinality({i \in lo..(hi - 1) : i < Len(text) /\ text[i + 1] = c})

\* text.replace("\n", "\\n"): every line break becomes backslash, n
RECURSIVE replace(_)
replace(text) ==
    IF text = <<>> THEN <<>>
    ELSE (IF Head(text) = LF THEN <<BACKSLASH, SMALL_N>> ELSE <<Head(text)>>)
         \o replace(Tail(text))

\* extract_line without `line_start += 1`
extract_line_keeps_break(text, pos) ==
    LET r == rfind(text, LF, 0, pos)
        line_start == IF r = -1 THEN 0 ELSE r
        f == find(text, LF, pos)
        line_end == IF f = -1 THEN Len(text) ELSE f
    IN  SubSeq(text, line_start + 1, line_end)

extract_line(text, pos) ==
    LET r == rfind(text, LF, 0, pos)
        line_start == IF r = -1 THEN 0 ELSE r + 1
        f == find(text, LF, pos)
        line_end == IF f = -1 THEN Len(text) ELSE f
    IN  SubSeq(text, line_start + 1, line_end)

\* make_finding with a 0-based line_in_block
make_finding_zero_based(unit, src, start, end, issue, message, suggestion) ==
    LET abs_start == unit.start_line + count(src, LF, 0, start)
    IN  [prog_name |-> unit.pgm_name,
         incl_name |-> unit.inc_name,
         types |-> unit.type,
         blockname |-> unit.name,
         starting_line |-> abs_start,
         ending_line |-> abs_start,
         issues_type |-> issue,
         severity |-> "error",
         message |-> message,
         suggestion |-> suggestion,
         snippet |-> replace(extract_line(src, start))]

make_finding(unit, src, start, end, issue, message, suggestion) ==
    LET line_in_block == count(src, LF, 0, start) + 1
        abs_start == unit.start_line + line_in_block
        abs_end == abs_start
        snippet == replace(extract_line(src, start))
    IN  [prog_name |-> unit.pgm_name,
         incl_name |-> unit.inc_name,
         types |-> unit.type,
         blockname |-> unit.name,
         starting_line |-> abs_start,
         ending_line |-> abs_end,
         issues_type |-> issue,
         severity |-> "error",
         message |-> message,
         suggestion |-> suggestion,
         snippet |-> snippet]

\* the findings of one rule's loop of scan_unit, in match order
RECURSIVE rule_findings(_, _, _, _, _, _)
rule_findings(unit, src, ms, issue, message, suggestion) ==
    IF ms = <<>> THEN <<>>
    ELSE <<make_finding(unit, src, Head(ms).start, Head(ms).end,
                        issue, message, suggestion)>>
         \o rule_findings(unit, src, Tail(ms), issue, message, suggestion)

\* ------------------------------------------------------------------------
\* Core scan logic
\* ------------------------------------------------------------------------
\* the list fnds of scan_unit after its two loops: the findings of the
\* Rule 303 loop, then those of the Rule 304 loop
all_findings(unit, src) ==
    rule_findings(unit, src, finditer(ISSUE_303, src, 0),
                  ISSUE_303, MSG_303, SUG_303)
    \o rule_findings(unit, src, finditer(ISSUE_304, src, 0),
                     ISSUE_304, MSG_304, SUG_304)

\* scan_unit with the two rule loops in the other order
scan_unit_304_first(h, id) ==
    LET unit == h[id]
        src == OrEmpty(unit.code)
        fnds == rule_findings(unit, src, finditer(ISSUE_304, src, 0),
                              ISSUE_304, MSG_304, SUG_304)
                \o rule_findings(unit, src, finditer(ISSUE_303, src, 0),
                                 ISSUE_303, MSG_303, SUG_303)
        out == [unit EXCEPT !.findings =
                    IF Len(fnds) > 0 THEN Some(fnds) ELSE NoneV]
    IN  [heap |-> Append(h, out), ret |-> Len(h) + 1]

\* scan_unit that sets the findings on its argument and returns it
scan_unit_in_place(h, id) ==
    LET unit == h[id]
        fnds == all_findings(unit, OrEmpty(unit.code))
    IN  [heap |-> [h EXCEPT ![id].findings =
                       IF Len(fnds) > 0 THEN Some(fnds) ELSE NoneV],
         ret |-> id]

\* scan_unit that assigns the findings only when there are some
scan_unit_keeps_findings(h, id) ==
    LET unit == h[id]
        fnds == all_findings(unit, OrEmpty(unit.code))
        out == [unit EXCEPT !.findings =
                    IF Len(fnds) > 0 THEN Some(fnds) ELSE unit.findings]
    IN  [heap |-> Append(h, out), ret |-> Len(h) + 1]

\* scan_unit on the object id of heap h: the heap after the call and the
\* identity of the returned object
scan_unit(h, id) ==
    LET unit == h[id]
        src == OrEmpty(unit.code)
        fnds == all_findings(unit, src)
        out == [unit EXCEPT !.findings =
                    IF Len(fnds) > 0 THEN Some(fnds) ELSE NoneV]
    IN  [heap |-> Append(h, out), ret |-> Len(h) + 1]

\* the loop of scan_array without the `if scanned.findings` filter
RECURSIVE scan_array_loop_unfiltered(_, _, _)
scan_array_loop_unfiltered(h, ids, results) ==
    IF ids = <<>> THEN [heap |-> h, results |-> results]
    ELSE LET r == scan_unit(h, Head(ids))
         IN  scan_array_loop_unfiltered(r.heap, Tail(ids), Append(results, r.ret))

\* the loop of scan_array over the objects ids
RECURSIVE scan_array_loop(_, _, _)
scan_array_loop(h, ids, results) ==
    IF ids = <<>> THEN [heap |-> h, results |-> results]
    ELSE LET r == scan_unit(h, Head(ids))
             scanned == r.heap[r.ret]
         IN  scan_array_loop(r.heap, Tail(ids),
                             IF Truthy(scanned.findings)
                             THEN Append(results, r.ret)
                             ELSE results)

scan_array(h, ids) == scan_array_loop(h, ids, <<>>)

scan_single(h, id) == scan_unit(h, id)

health == [ok |-> TRUE, rules |-> <<303, 304>>, version |-> "2.0"]

\* ------------------------------------------------------------------------
\* Request bodies
\* ------------------------------------------------------------------------
F_BP == KW_BREAKPOINT

\* 'break-Point' written with a dotless i (U+0131)
F_bp == <<98,114,101,97,107,45,80,111,305,110,116>>

\* 'SET EXTENDED CHECK'
F_SEC == <<83,69,84,32,69,88,84,69,78,68,69,68,32,67,72,69,67,75>>

\* 'set', line feed, 'Extended', no-break space, vertical tab, 'check', written
\* with a long s (U+017F) and a Kelvin sign (U+212A)
F_sec == <<383,101,116,10,69,120,116,101,110,100,101,100,160,11,99,104,101,99,8490>>

\* the other fragments: space, line feed, the word 'e-acute
\* superscript-two Omega' (U+00E9, U+00B2, U+03A9), period, underscore
Fragments ==
    {F_BP, F_bp, F_SEC, F_sec,
     <<32>>, <<LF>>, <<233,178,937>>, <<46>>, <<95>>}

\* the texts made of at most n fragments
RECURSIVE Texts(_)
Texts(n) ==
    IF n = 0 THEN {<<>>}
    ELSE LET T == Texts(n - 1)
         IN  T \cup {t \o f : t \in T, f \in Fragments}

\* 'DATA: lv_x TYPE i.\nBREAK-POINT.\n'
EX_DATA_BP ==
    <<68,65,84,65,58,32,108,118,95,120,32,84,89,80,69,32,105,46,10>>
    \o KW_BREAKPOINT \o <<46,10>>

\* 'XBREAK-POINTX'
EX_XBPX == <<88>> \o KW_BREAKPOINT \o <<88>>

\* 'RESET EXTENDED CHECKS'
EX_RESET == <<82,69>> \o F_SEC \o <<83>>

\* 'WRITE 1.\nset   extended   check.'
EX_SPACED ==
    <<87,82,73,84,69,32,49,46,10,
      115,101,116,32,32,32,101,120,116,101,110,100,101,100,32,32,32,
      99,104,101,99,107,46>>

\* 'WRITE.\n  BREAK-POINT ID.\nWRITE.'
EX_BP_ID ==
    <<87,82,73,84,69,46,10,32,32>> \o KW_BREAKPOINT \o <<32,73,68,46,10,87,82,73,84,69,46>>

Examples == {EX_DATA_BP, EX_XBPX, EX_RESET, EX_SPACED, EX_BP_ID}

StartLines == {0, 100}

\* a finding a unit may already carry when it arrives
StaleFinding ==
    [prog_name |-> "ZOLD", incl_name |-> "ZOLD", types |-> "OLD",
     blockname |-> "OLD", starting_line |-> 7, ending_line |-> 7,
     issues_type |-> "Stale", severity |-> "info", message |-> "old",
     suggestion |-> "old", snippet |-> <<111,108,100>>]   \* 'old'

MkUnit(code, sl, fnds) ==
    [pgm_name |-> "ZPROG", inc_name |-> "ZINC", type |-> "METHOD",
     name |-> "M1", class_implementation |-> NoneV,
     start_line |-> sl, end_line |-> sl + 3,
     code |-> code, findings |-> fnds]

Codes(n) == {NoneV} \cup {Some(t) : t \in Texts(n) \cup Examples}

\* the units posted to /remediate: any code at either start line, and any
\* code in a unit that already carries a finding
SingleUnits ==
    {MkUnit(c, sl, NoneV) : c \in Codes(MaxFrags), sl \in StartLines}
    \cup {MkUnit(c, 0, Some(<<StaleFinding>>)) : c \in Codes(MaxFrags)}

\* the units of a batch: with and without matches, with and without code
ArrayCodes ==
    {NoneV, Some(<<32>>), Some(F_BP), Some(F_sec),
     Some(F_BP \o <<46, LF>> \o F_SEC)}

ArrayUnits == {MkUnit(c, 10, NoneV) : c \in ArrayCodes}

RECURSIVE SeqsUpTo(_, _)
SeqsUpTo(S, n) ==
    IF n = 0 THEN {<<>>}
    ELSE LET T == SeqsUpTo(S, n - 1)
         IN  T \cup {Append(t, x) : t \in T, x \in S}

\* ------------------------------------------------------------------------
\* The service
\* ------------------------------------------------------------------------
VARIABLES
    pc,        \* "idle", "received" (handler about to run) or "responded"
    op,        \* the endpoint of the current request
    body,      \* the units of the request body as they arrived
    heap,      \* the Unit objects; the index is the object's identity
    args,      \* the objects passed to the handler
    response   \* what the handler returned

vars == <<pc, op, body, heap, args, response>>

NoResponse == [kind |-> "none"]

Init ==
    /\ pc = "idle"
    /\ op = "none"
    /\ body = <<>>
    /\ heap = <<>>
    /\ args = <<>>
    /\ response = NoResponse

\* a request arrives and its body is parsed into Unit objects
Receive(endpoint, us) ==
    /\ pc = "idle"
    /\ pc' = "received"
    /\ op' = endpoint
    /\ body' = us
    /\ heap' = us
    /\ args' = [i \in 1..Len(us) |-> i]
    /\ response' = NoResponse

PostRemediate ==
    /\ pc = "idle"
    /\ \E u \in SingleUnits : Receive("remediate", <<u>>)

PostRemediateArray ==
    /\ pc = "idle"
    /\ \E us \in SeqsUpTo(ArrayUnits, MaxUnits) : Receive("remediate-array", us)

GetHealth == Receive("health", <<>>)

\* POST /remediate
ScanSingle ==
    /\ pc = "received"
    /\ op = "remediate"
    /\ \E r \in {scan_single(heap, args[1])} :
           /\ heap' = r.heap
           /\ response' = [kind |-> "unit", ref |-> r.ret]
    /\ pc' = "responded"
    /\ UNCHANGED <<op, body, args>>

\* POST /remediate-array
ScanArray ==
    /\ pc = "received"
    /\ op = "remediate-array"
    /\ \E r \in {scan_array(heap, args)} :
           /\ heap' = r.heap
           /\ response' = [kind |-> "list", refs |-> r.results]
    /\ pc' = "responded"
    /\ UNCHANGED <<op, body, args>>

\* GET /health
Health ==
    /\ pc = "received"
    /\ op = "health"
    /\ response' = [kind |-> "health", body |-> health]
    /\ pc' = "responded"
    /\ UNCHANGED <<op, body, heap, args>>

\* the returned value is serialised and sent; the request's objects die
Reply ==
    /\ pc = "responded"
    /\ pc' = "idle"
    /\ op' = "none"
    /\ body' = <<>>
    /\ heap' = <<>>
    /\ args' = <<>>
    /\ response' = NoResponse

Next ==
    \/ PostRemediate
    \/ PostRemediateArray
    \/ GetHealth
    \/ ScanSingle
    \/ ScanArray
    \/ Health
    \/ Reply

Spec == Init /\ [][Next]_vars

\* ------------------------------------------------------------------------
\* Properties
\* ------------------------------------------------------------------------
\* POST /remediate has been answered
Done == pc = "responded" /\ op = "remediate"

\* POST /remediate-array has been answered
ArrDone == pc = "responded" /\ op = "remediate-array"

InUnit == body[1]

OutUnit == heap[response.ref]

Src == OrEmpty(InUnit.code)

\* the findings of the answer, the empty list when absent
Fnds == IF OutUnit.findings.isNone THEN <<>> ELSE OutUnit.findings.val

\* the match spans of both rules, Rule 303 first
Spans303 == finditer(ISSUE_303, Src, 0)

Spans304 == finditer(ISSUE_304, Src, 0)

AllSpans == Spans303 \o Spans304

\* the number of line breaks in text[0..p)
NewlinesBefore(text, p) == Cardinality({i \in 1..p : text[i] = LF})

NumFindings(issue) == Cardinality({k \in 1..Len(Fnds) : Fnds[k].issues_type = issue})

\* C1: every finding's starting_line is the unit's start_line + 1 + the
\* number of line breaks before the match start; start_line 100 and code
\* 'DATA: lv_x TYPE i.\nBREAK-POINT.\n' give exactly one finding, on line 102.
C1_StartingLine ==
    Done =>
        /\ Len(Fnds) = Len(AllSpans)
        /\ \A k \in 1..Len(Fnds) :
               Fnds[k].starting_line =
                   InUnit.start_line + 1 + NewlinesBefore(Src, AllSpans[k].start)
        /\ (Src = EX_DATA_BP /\ InUnit.start_line = 100) =>
               (Len(Fnds) = 1 /\ Fnds[1].starting_line = 102)

C1_Witness ==
    /\ Done
    /\ Src = EX_DATA_BP
    /\ InUnit.start_line = 100
    /\ Len(Fnds) = 1
    /\ Fnds[1].starting_line = 102

\* C2: the findings are one per Rule 303 match in text order followed by one
\* per Rule 304 match in text order; findings are never merged (two on the
\* same line have the same lines and snippet) and no Rule 304 finding
\* precedes a Rule 303 finding.
C2_RuleOrder ==
    Done =>
        LET n303 == Len(Spans303)
            n304 == Len(Spans304)
        IN  /\ Len(Fnds) = n303 + n304
            /\ \A k \in 1..n303 :
                   /\ Fnds[k].issues_type = ISSUE_303
                   /\ Fnds[k].starting_line =
                          InUnit.start_line + 1 + NewlinesBefore(Src, Spans303[k].start)
            /\ \A k \in 1..n304 :
                   /\ Fnds[n303 + k].issues_type = ISSUE_304
                   /\ Fnds[n303 + k].starting_line =
                          InUnit.start_line + 1 + NewlinesBefore(Src, Spans304[k].start)
            /\ \A k \in 1..(n303 - 1) : Spans303[k].start < Spans303[k + 1].start
            /\ \A k \in 1..(n304 - 1) : Spans304[k].start < Spans304[k + 1].start
            /\ \A k, l \in 1..Len(Fnds) :
                   /\ (k < l /\ Fnds[k].issues_type = Fnds[l].issues_type)
                          => Fnds[k].starting_line <= Fnds[l].starting_line
                   /\ (Fnds[k].starting_line = Fnds[l].starting_line)
                          => (/\ Fnds[k].ending_line = Fnds[l].ending_line
                              /\ Fnds[k].snippet = Fnds[l].snippet)
                   /\ (Fnds[k].issues_type = ISSUE_304 /\ Fnds[l].issues_type = ISSUE_303)
                          => l < k

\* a BREAK-POINT on an earlier line than a SET EXTENDED CHECK, reported after it
C2_Witness ==
    /\ Done
    /\ Len(Fnds) = 2
    /\ Fnds[1].issues_type = ISSUE_303
    /\ Fnds[2].issues_type = ISSUE_304
    /\ Fnds[2].starting_line < Fnds[1].starting_line

\* the offsets at which a keyword stands, whatever surrounds it
Occ304 == {p \in 0..Len(Src) : MatchLit(Src, p, KW_BREAKPOINT)}

Occ303 == {p \in 0..Len(Src) : SetExtCheckBody(Src, p) >= 0}

\* the keyword occurrence Src[s..e) is part of a longer identifier
Embedded(s, e) == IsWordAt(Src, s - 1) \/ IsWordAt(Src, e)

Alone304 == {p \in Occ304 : ~Embedded(p, p + Len(KW_BREAKPOINT))}

Alone303 == {p \in Occ303 : ~Embedded(p, SetExtCheckBody(Src, p))}

\* C3: matching is case-insensitive and whole-keyword only: a keyword
\* occurrence preceded or followed by a letter, digit or underscore gives no
\* finding ('XBREAK-POINTX' and 'RESET EXTENDED CHECKS' give none), while the
\* keywords standing alone, in any letter case, do give a finding.
C3_WholeKeyword ==
    Done =>
        /\ NumFindings(ISSUE_304) <= Cardinality(Alone304)
        /\ NumFindings(ISSUE_303) <= Cardinality(Alone303)
        /\ (Alone304 # {}) => NumFindings(ISSUE_304) > 0
        /\ (Alone303 # {}) => NumFindings(ISSUE_303) > 0
        /\ Src \in {EX_XBPX, EX_RESET} => Fnds = <<>>
        /\ Src \in {F_BP, F_bp} =>
               (NumFindings(ISSUE_304) = 1 /\ NumFindings(ISSUE_303) = 0)
        /\ Src \in {F_SEC, F_sec} =>
               (NumFindings(ISSUE_303) = 1 /\ NumFindings(ISSUE_304) = 0)

\* a keyword inside a longer identifier, and nothing reported
C3_Witness ==
    /\ Done
    /\ \E p \in Occ304 : Embedded(p, p + Len(KW_BREAKPOINT))
    /\ Alone304 = {}
    /\ Alone303 = {}
    /\ OutUnit.findings.isNone

\* the fields scan_unit copies from its argument
SameIdentity(a, b) ==
    /\ a.pgm_name = b.pgm_name
    /\ a.inc_name = b.inc_name
    /\ a.type = b.type
    /\ a.name = b.name
    /\ a.class_implementation = b.class_implementation
    /\ a.start_line = b.start_line
    /\ a.end_line = b.end_line
    /\ a.code = b.code

\* C4: scan_unit leaves every field of its argument (findings included)
\* unchanged, returns a distinct object with the same pgm_name, inc_name,
\* type, name, class_implementation, start_line, end_line and code, and two
\* calls on the same input return the same findings in the same order.
C4_Pure ==
    /\ Done =>
           /\ heap[args[1]] = body[1]
           /\ response.ref # args[1]
           /\ SameIdentity(OutUnit, body[1])
    /\ ArrDone =>
           /\ \A i \in 1..Len(args) : heap[args[i]] = body[i]
           /\ \A i \in 1..Len(response.refs) :
                  /\ \A j \in 1..Len(args) : response.refs[i] # args[j]
                  /\ \E j \in 1..Len(body) :
                         SameIdentity(heap[response.refs[i]], body[j])
           /\ Len(heap) = 2 * Len(body)
           /\ \A i, j \in 1..Len(body) :
                  body[i] = body[j] => heap[Len(body) + i] = heap[Len(body) + j]

\* a unit that arrived with a finding is scanned and gets new ones
C4_Witness ==
    /\ Done
    /\ InUnit.findings = Some(<<StaleFinding>>)
    /\ Len(Fnds) = 2
    /\ heap[args[1]].findings = Some(<<StaleFinding>>)

\* C5: every finding's snippet is the whole physical line of the code that
\* holds the match start, unmodified, and holds no line break; for a line
\* with 'BREAK-POINT ID' the one Rule 304 finding's snippet is that line.
C5_Snippet ==
    Done =>
        /\ Len(Fnds) = Len(AllSpans)
        /\ \A k \in 1..Len(Fnds) :
               LET s == AllSpans[k].start
                   snip == Fnds[k].snippet
               IN  /\ \A i \in 1..Len(snip) : snip[i] # 10
                   /\ \E ls \in 0..s, le \in s..Len(Src) :
                          /\ ls = 0 \/ Src[ls] = 10
                          /\ le = Len(Src) \/ Src[le + 1] = 10
                          /\ \A i \in (ls + 1)..le : Src[i] # 10
                          /\ snip = SubSeq(Src, ls + 1, le)
        /\ Src = EX_BP_ID =>
               /\ Len(Fnds) = 1
               /\ Fnds[1].issues_type = ISSUE_304
               /\ Fnds[1].snippet =
                      <<32,32>> \o KW_BREAKPOINT \o <<32,73,68,46>>

C5_Witness ==
    /\ Done
    /\ Src = EX_BP_ID
    /\ Len(Fnds) = 1
    /\ Fnds[1].snippet = <<32,32>> \o KW_BREAKPOINT \o <<32,73,68,46>>

\* neither pattern matches anywhere in text
NoMatch(text) ==
    \A p \in 0..Len(text) :
        SET_EXT_CHECK_RE(text, p) = -1 /\ BREAKPOINT_RE(text, p) = -1

\* C6: scan_unit always returns, and the returned findings are None exactly
\* when neither rule matches and a non-empty list otherwise, whatever
\* findings the input carried and also for code None, '', blank or one line.
C6_FindingsAbsent ==
    /\ (pc = "received" /\ op = "remediate") =>
           LET r == scan_unit(heap, args[1])
           IN  /\ r.ret \in DOMAIN r.heap
               /\ DOMAIN r.heap[r.ret] = DOMAIN heap[args[1]]
    /\ Done =>
           /\ OutUnit.findings.isNone <=> NoMatch(Src)
           /\ (~OutUnit.findings.isNone) => Len(OutUnit.findings.val) > 0

\* a unit without code that carried a finding comes back without findings
C6_Witness ==
    /\ Done
    /\ InUnit.code.isNone
    /\ InUnit.findings = Some(<<StaleFinding>>)
    /\ OutUnit.findings.isNone

\* C7: the offset ranges [start, end) of any two reported matches are
\* disjoint, within one rule and between Rule 303 and Rule 304.
C7_Disjoint ==
    Done =>
        \A i, j \in 1..Len(AllSpans) :
            i < j => \/ AllSpans[i].end <= AllSpans[j].start
                     \/ AllSpans[j].end <= AllSpans[i].start

\* C8: no matched text holds a line break, so ending_line (= starting_line)
\* is the line on which the match ends.
C8_IntraLine ==
    Done =>
        \A k \in 1..Len(Fnds) :
            /\ \A i \in (AllSpans[k].start + 1)..AllSpans[k].end : Src[i] # 10
            /\ Fnds[k].ending_line =
                   InUnit.start_line + 1 + NewlinesBefore(Src, AllSpans[k].end)

\* what scan_unit returns for a unit with the contents u
Expected(u) == LET r == scan_unit(<<u>>, 1) IN r.heap[r.ret]

\* the scanned units with findings, in input order
RECURSIVE ExpectedResults(_)
ExpectedResults(us) ==
    IF us = <<>> THEN <<>>
    ELSE (IF Truthy(Expected(Head(us)).findings)
          THEN <<Expected(Head(us))>> ELSE <<>>)
         \o ExpectedResults(Tail(us))

\* C9: scan_array returns the scan_unit results with findings, in input
\* order, none duplicated or reordered and each independent of the other
\* units; scan_single returns scan_unit(unit), findings or not.
C9_Batch ==
    /\ ArrDone =>
           LET exp == ExpectedResults(body)
           IN  /\ response.kind = "list"
               /\ Len(response.refs) = Len(exp)
               /\ \A i \in 1..Len(exp) : heap[response.refs[i]] = exp[i]
               /\ \A i, j \in 1..Len(exp) : i # j => response.refs[i] # response.refs[j]
    /\ Done =>
           /\ response.kind = "unit"
           /\ OutUnit = Expected(body[1])

\* a batch whose first unit has no match and whose second has one
C9_Witness ==
    /\ ArrDone
    /\ Len(body) = 2
    /\ ~Truthy(Expected(body[1]).findings)
    /\ Len(response.refs) = 1
    /\ heap[response.refs[1]] = Expected(body[2])

\* the offsets of the word-bounded occurrences of BREAK-POINT
Bounded304 ==
    {p \in Occ304 : WordBoundary(Src, p) /\ WordBoundary(Src, p + Len(KW_BREAKPOINT))}

\* C10: there is one Rule 304 finding per word-bounded occurrence of
\* BREAK-POINT, each on the line where its keyword starts; the trailing token
\* of a match never hides a following BREAK-POINT.
C10_EveryBreakPoint ==
    Done =>
        /\ NumFindings(ISSUE_304) = Cardinality(Bounded304)
        /\ \A p \in Bounded304 :
               \E k \in 1..Len(Fnds) :
                   /\ Fnds[k].issues_type = ISSUE_304
                   /\ Fnds[k].starting_line =
                          InUnit.start_line + 1 + NewlinesBefore(Src, p)

====
